---------------------------- MODULE Spec2Model ----------------------------
(***************************************************************************)
(* MasterMind (src/main.py): the scoring function score_guess and the game *)
(* state held by BoardWidget, driven by the buttons and keys of MainWindow.*)
(*                                                                         *)
(* Indices are 0-based as in the source: a row of the board, the secret    *)
(* and a guess are functions over 0..slots-1, the board and the history    *)
(* are functions over 0..rows-1.                                           *)
(***************************************************************************)
EXTENDS Integers, FiniteSets, Sequences, TLC

(* ------------------------------ bounds -------------------------------- *)
\* BoardWidget(colors, slots, rows): the constructor's arguments.
Slots == 2
Rows == 2
\* Length of the sequences score_guess is applied to on its own.
MaxLen == 4

(* ----------------------------- constants ------------------------------ *)
\* The palette, src/main.py:38-45.
DEFAULT_COLORS == <<"rose", "jaune", "vert", "bleu", "violet", "orange">>

\* Python's None, as a board cell, a consumed element or an absent hint.
None == "None"

\* self.colors of the board under check: the head of the palette.
colors == {DEFAULT_COLORS[1], DEFAULT_COLORS[2]}

\* The colours score_guess is applied to on its own.
ScoreColors == {DEFAULT_COLORS[1], DEFAULT_COLORS[2], DEFAULT_COLORS[3],
                DEFAULT_COLORS[4]}

\* history[i] = None (line 97): no entry recorded for the row.
NoEntry == [black |-> -1, white |-> -1, guess |-> <<>>]

VARIABLES
    board,          \* self.board: rows x slots of colour or None
    history,        \* self.history: per row, NoEntry or {black, white, guess}
    row_index,      \* self.row_index
    selected_slot,  \* self.selected_slot
    secret,         \* self.secret
    finished,       \* self.finished
    message,        \* self.message, as [kind, n]
    hint_color,     \* self.hint_color (None while the attribute is absent)
    endedBy,        \* history variable: how the game in course was resolved
    sc_secret,      \* score_guess on its own: argument secret
    sc_guess,       \* score_guess on its own: argument guess
    sc_result       \* score_guess on its own: <<black, white>> once returned

gameVars == <<board, history, row_index, selected_slot, secret, finished,
              message, hint_color>>
scoreVars == <<sc_secret, sc_guess, sc_result>>
vars == <<board, history, row_index, selected_slot, secret, finished,
          message, hint_color, endedBy, sc_secret, sc_guess, sc_result>>

(* --------------------------- score_guess ------------------------------ *)
\* list.index(v): the first index holding v; callers test membership first
\* (the ValueError branch).
ListIndex(list, v) ==
    CHOOSE j \in DOMAIN list :
        /\ list[j] = v
        /\ \A k \in DOMAIN list : list[k] = v => j <= k

\* An exact test by search: position i counts when the first occurrence of
\* the guessed colour in the secret is at i.
ExactHitFirstIndex(secret_, guess_, i) ==
    /\ guess_[i] # None
    /\ \E j \in DOMAIN secret_ : secret_[j] = guess_[i]
    /\ ListIndex(secret_, guess_[i]) = i

\* Lines 58-59: the positions the first loop counts.
ExactHit(secret_, guess_, i) ==
    guess_[i] # None /\ secret_[i] = guess_[i]

\* A first loop that forgets to consume what it matched.
ExactPassNoMark(secret_, guess_) ==
    [black |-> Cardinality({i \in DOMAIN secret_ : ExactHit(secret_, guess_, i)}),
     secret_copy |-> secret_,
     guess_copy |-> guess_]

\* Lines 55-62: iteration i reads and writes index i only, so the loop is
\* the pointwise map.
ExactPass(secret_, guess_) ==
    [black |-> Cardinality({i \in DOMAIN secret_ : ExactHit(secret_, guess_, i)}),
     secret_copy |-> [i \in DOMAIN secret_ |->
                        IF ExactHit(secret_, guess_, i) THEN None ELSE secret_[i]],
     guess_copy |-> [i \in DOMAIN guess_ |->
                        IF ExactHit(secret_, guess_, i) THEN None ELSE guess_[i]]]

RECURSIVE WhitePassNoConsume(_, _, _, _)
\* A second loop that does not consume the secret element it matched.
WhitePassNoConsume(secret_copy, guess_copy, i, white) ==
    IF i \notin DOMAIN guess_copy THEN white
    ELSE IF guess_copy[i] = None
         THEN WhitePassNoConsume(secret_copy, guess_copy, i + 1, white)
    ELSE IF \E j \in DOMAIN secret_copy : secret_copy[j] = guess_copy[i]
         THEN WhitePassNoConsume(secret_copy, guess_copy, i + 1, white + 1)
    ELSE WhitePassNoConsume(secret_copy, guess_copy, i + 1, white)

RECURSIVE WhitePassNoSkip(_, _, _, _)
\* A second loop without the "is None: continue" test: a consumed guess
\* element is searched for like a colour.
WhitePassNoSkip(secret_copy, guess_copy, i, white) ==
    IF i \notin DOMAIN guess_copy THEN white
    ELSE IF \E j \in DOMAIN secret_copy : secret_copy[j] = guess_copy[i]
         THEN WhitePassNoSkip(
                  [secret_copy EXCEPT ![ListIndex(secret_copy, guess_copy[i])] = None],
                  guess_copy, i + 1, white + 1)
    ELSE WhitePassNoSkip(secret_copy, guess_copy, i + 1, white)

RECURSIVE WhitePass(_, _, _, _)
\* Lines 63-72: the loop from index i on, white counted so far.
WhitePass(secret_copy, guess_copy, i, white) ==
    IF i \notin DOMAIN guess_copy THEN white
    ELSE IF guess_copy[i] = None
         THEN WhitePass(secret_copy, guess_copy, i + 1, white)
    ELSE IF \E j \in DOMAIN secret_copy : secret_copy[j] = guess_copy[i]
         THEN WhitePass(
                  [secret_copy EXCEPT ![ListIndex(secret_copy, guess_copy[i])] = None],
                  guess_copy, i + 1, white + 1)
    ELSE WhitePass(secret_copy, guess_copy, i + 1, white)

\* Lines 54-73: returns black, white.
score_guess(secret_, guess_) ==
    LET p == ExactPass(secret_, guess_)
    IN  <<p.black, WhitePass(p.secret_copy, p.guess_copy, 0, 0)>>

(* ------------------ score_guess applied on its own -------------------- *)
\* Not yet called / result of no call.
NoResult == <<-1, -1>>

\* The game state while score_guess is exercised on its own, and the
\* arguments while the game is (lines 96-104).
EmptyBoard == [r \in 0..(Rows - 1) |-> [s \in 0..(Slots - 1) |-> None]]
EmptyHistory == [r \in 0..(Rows - 1) |-> NoEntry]
NoMessage == [kind |-> "", n |-> 0]

ScoreInit ==
    /\ \E L \in 1..MaxLen :
          /\ sc_secret \in [0..(L - 1) -> ScoreColors]
          /\ sc_guess \in [0..(L - 1) -> ScoreColors]
    /\ sc_result = NoResult
    /\ board = EmptyBoard
    /\ history = EmptyHistory
    /\ row_index = 0
    /\ selected_slot = 0
    /\ secret = [s \in 0..(Slots - 1) |-> "rose"]
    /\ finished = FALSE
    /\ message = NoMessage
    /\ hint_color = None
    /\ endedBy = "none"

CallScoreGuess ==
    /\ sc_result = NoResult
    /\ sc_result' = score_guess(sc_secret, sc_guess)
    /\ UNCHANGED <<gameVars, endedBy, sc_secret, sc_guess>>

ScoreNext == CallScoreGuess

ScoreSpec == ScoreInit /\ [][ScoreNext]_vars

(* ------------------------------ the game ------------------------------ *)
\* random_code(colors, length), lines 50-51: any code over the palette.
random_code(colors_, length) == [0..(length - 1) -> colors_]

\* The texts assigned to self.message, by kind; n is the number formatted
\* into the text (0 when the text has none).
Msg(kind, n) == [kind |-> kind, n |-> n]

\* BoardWidget.__init__, lines 91-104 (the attribute hint_color is not set).
Init ==
    /\ board = EmptyBoard
    /\ history = EmptyHistory
    /\ row_index = 0
    /\ selected_slot = 0
    /\ secret \in random_code(colors, Slots)
    /\ finished = FALSE
    /\ message = NoMessage
    /\ hint_color = None
    /\ endedBy = "none"
    /\ sc_secret = <<>>
    /\ sc_guess = <<>>
    /\ sc_result = NoResult

\* BoardWidget.reset, lines 109-117 (MainWindow.new_game).
reset ==
    /\ board' = EmptyBoard
    /\ history' = EmptyHistory
    /\ row_index' = 0
    /\ selected_slot' = 0
    /\ secret' \in random_code(colors, Slots)
    /\ finished' = FALSE
    /\ message' = Msg("new", 0)
    /\ UNCHANGED hint_color
    /\ endedBy' = "none"
    /\ UNCHANGED scoreVars

\* give_up that sets the message and forgets self.finished = True.
give_up_no_finish ==
    /\ message' = Msg("abandon", 0)
    /\ UNCHANGED <<board, history, row_index, selected_slot, secret, finished,
                   hint_color>>
    /\ UNCHANGED <<endedBy, scoreVars>>

\* BoardWidget.give_up, lines 119-122.
give_up ==
    /\ finished' = TRUE
    /\ message' = Msg("abandon", 0)
    /\ UNCHANGED <<board, history, row_index, selected_slot, secret, hint_color>>
    /\ endedBy' = IF finished THEN endedBy ELSE "give_up"
    /\ UNCHANGED scoreVars

\* BoardWidget.place_color, lines 124-132.
place_color(color) ==
    /\ IF finished
       THEN UNCHANGED gameVars
       ELSE /\ board' = [board EXCEPT ![row_index][selected_slot] = color]
            /\ selected_slot' = (selected_slot + 1) % Slots
            /\ UNCHANGED <<history, row_index, secret, finished, message,
                           hint_color>>
    /\ UNCHANGED <<endedBy, scoreVars>>

\* remove_color as it acts when submit_row stores the board row itself in
\* the history entry instead of list(guess): the entry's guess is the same
\* list and loses the peg too.
remove_color_at_aliased(slot) ==
    /\ IF row_index \in DOMAIN board
       THEN /\ board' = [board EXCEPT ![row_index][slot] = None]
            /\ selected_slot' = slot
            /\ history' = IF history[row_index] # NoEntry
                          THEN [history EXCEPT ![row_index].guess[slot] = None]
                          ELSE history
       ELSE UNCHANGED <<board, selected_slot, history>>
    /\ UNCHANGED <<row_index, secret, finished, message, hint_color>>
    /\ UNCHANGED <<endedBy, scoreVars>>

\* BoardWidget.remove_color, lines 137-139, slot already resolved:
\* self.board[self.row_index] raises IndexError when row_index = rows, before
\* anything is assigned.
remove_color_at(slot) ==
    /\ IF row_index \in DOMAIN board
       THEN /\ board' = [board EXCEPT ![row_index][slot] = None]
            /\ selected_slot' = slot
       ELSE UNCHANGED <<board, selected_slot>>
    /\ UNCHANGED <<history, row_index, secret, finished, message, hint_color>>
    /\ UNCHANGED <<endedBy, scoreVars>>

\* BoardWidget.remove_color(), lines 134-136: slot is None (Backspace).
remove_color == remove_color_at((selected_slot - 1) % Slots)

\* BoardWidget.remove_color(slot), line 134: slot given.
remove_color_slot(slot) == remove_color_at(slot)

\* A completeness test that lets every row through.
AnyNoneIgnored(guess) == FALSE

\* Line 145: any(c is None for c in guess).
AnyNone(guess) == \E s \in DOMAIN guess : guess[s] = None

\* submit_complete with the exhaustion test off by one (> for >=).
submit_complete_late_loss ==
    LET guess == board[row_index]
        sc == score_guess(secret, guess)
        black == sc[1]
        white == sc[2]
    IN  /\ history' = [history EXCEPT ![row_index] =
                          [black |-> black, white |-> white, guess |-> guess]]
        /\ IF black = Slots
           THEN /\ finished' = TRUE
                /\ message' = Msg("won", row_index + 1)
                /\ endedBy' = "won"
                /\ UNCHANGED <<row_index, selected_slot>>
           ELSE /\ row_index' = row_index + 1
                /\ IF row_index + 1 > Rows
                   THEN /\ finished' = TRUE
                        /\ message' = Msg("lost", 0)
                        /\ endedBy' = "lost"
                        /\ UNCHANGED selected_slot
                   ELSE /\ selected_slot' = 0
                        /\ message' = Msg("continue", 0)
                        /\ UNCHANGED <<finished, endedBy>>
        /\ UNCHANGED <<board, secret, hint_color>>

\* submit_complete that advances the row before the test for a win.
submit_complete_advance_first ==
    LET guess == board[row_index]
        sc == score_guess(secret, guess)
        black == sc[1]
        white == sc[2]
    IN  /\ history' = [history EXCEPT ![row_index] =
                          [black |-> black, white |-> white, guess |-> guess]]
        /\ row_index' = row_index + 1
        /\ IF black = Slots
           THEN /\ finished' = TRUE
                /\ message' = Msg("won", row_index + 1)
                /\ endedBy' = "won"
                /\ UNCHANGED selected_slot
           ELSE IF row_index + 1 >= Rows
                THEN /\ finished' = TRUE
                     /\ message' = Msg("lost", 0)
                     /\ endedBy' = "lost"
                     /\ UNCHANGED selected_slot
                ELSE /\ selected_slot' = 0
                     /\ message' = Msg("continue", 0)
                     /\ UNCHANGED <<finished, endedBy>>
        /\ UNCHANGED <<board, secret, hint_color>>

\* submit_complete that takes black + white = slots for a win.
submit_complete_win_on_total ==
    LET guess == board[row_index]
        sc == score_guess(secret, guess)
        black == sc[1]
        white == sc[2]
    IN  /\ history' = [history EXCEPT ![row_index] =
                          [black |-> black, white |-> white, guess |-> guess]]
        /\ IF black + white = Slots
           THEN /\ finished' = TRUE
                /\ message' = Msg("won", row_index + 1)
                /\ endedBy' = "won"
                /\ UNCHANGED <<row_index, selected_slot>>
           ELSE /\ row_index' = row_index + 1
                /\ IF row_index + 1 >= Rows
                   THEN /\ finished' = TRUE
                        /\ message' = Msg("lost", 0)
                        /\ endedBy' = "lost"
                        /\ UNCHANGED selected_slot
                   ELSE /\ selected_slot' = 0
                        /\ message' = Msg("continue", 0)
                        /\ UNCHANGED <<finished, endedBy>>
        /\ UNCHANGED <<board, secret, hint_color>>

\* submit_complete scoring on self.secret itself instead of a copy: the
\* elements the exact pass consumes are lost.
submit_complete_scores_in_place ==
    LET guess == board[row_index]
        sc == score_guess(secret, guess)
        black == sc[1]
        white == sc[2]
    IN  /\ history' = [history EXCEPT ![row_index] =
                          [black |-> black, white |-> white, guess |-> guess]]
        /\ IF black = Slots
           THEN /\ finished' = TRUE
                /\ message' = Msg("won", row_index + 1)
                /\ endedBy' = "won"
                /\ UNCHANGED <<row_index, selected_slot>>
           ELSE /\ row_index' = row_index + 1
                /\ IF row_index + 1 >= Rows
                   THEN /\ finished' = TRUE
                        /\ message' = Msg("lost", 0)
                        /\ endedBy' = "lost"
                        /\ UNCHANGED selected_slot
                   ELSE /\ selected_slot' = 0
                        /\ message' = Msg("continue", 0)
                        /\ UNCHANGED <<finished, endedBy>>
        /\ secret' = ExactPass(secret, guess).secret_copy
        /\ UNCHANGED <<board, hint_color>>

\* submit_complete that tests the exhaustion of the rows before the win: a
\* perfect guess on the last row is a loss.
submit_complete_loss_first ==
    LET guess == board[row_index]
        sc == score_guess(secret, guess)
        black == sc[1]
        white == sc[2]
    IN  /\ history' = [history EXCEPT ![row_index] =
                          [black |-> black, white |-> white, guess |-> guess]]
        /\ IF row_index + 1 >= Rows
           THEN /\ row_index' = row_index + 1
                /\ finished' = TRUE
                /\ message' = Msg("lost", 0)
                /\ endedBy' = "lost"
                /\ UNCHANGED selected_slot
           ELSE IF black = Slots
           THEN /\ finished' = TRUE
                /\ message' = Msg("won", row_index + 1)
                /\ endedBy' = "won"
                /\ UNCHANGED <<row_index, selected_slot>>
           ELSE /\ row_index' = row_index + 1
                /\ selected_slot' = 0
                /\ message' = Msg("continue", 0)
                /\ UNCHANGED <<finished, endedBy>>
        /\ UNCHANGED <<board, secret, hint_color>>

\* submit_complete that forgets self.row_index += 1.
submit_complete_no_advance ==
    LET guess == board[row_index]
        sc == score_guess(secret, guess)
        black == sc[1]
        white == sc[2]
    IN  /\ history' = [history EXCEPT ![row_index] =
                          [black |-> black, white |-> white, guess |-> guess]]
        /\ IF black = Slots
           THEN /\ finished' = TRUE
                /\ message' = Msg("won", row_index + 1)
                /\ endedBy' = "won"
                /\ UNCHANGED <<row_index, selected_slot>>
           ELSE /\ row_index' = row_index
                /\ IF row_index + 1 >= Rows
                   THEN /\ finished' = TRUE
                        /\ message' = Msg("lost", 0)
                        /\ endedBy' = "lost"
                        /\ UNCHANGED selected_slot
                   ELSE /\ selected_slot' = 0
                        /\ message' = Msg("continue", 0)
                        /\ UNCHANGED <<finished, endedBy>>
        /\ UNCHANGED <<board, secret, hint_color>>

\* Lines 149-164 of submit_row: the row is complete.
submit_complete ==
    LET guess == board[row_index]
        sc == score_guess(secret, guess)
        black == sc[1]
        white == sc[2]
    IN  /\ history' = [history EXCEPT ![row_index] =
                          [black |-> black, white |-> white, guess |-> guess]]
        /\ IF black = Slots
           THEN /\ finished' = TRUE
                /\ message' = Msg("won", row_index + 1)
                /\ endedBy' = "won"
                /\ UNCHANGED <<row_index, selected_slot>>
           ELSE /\ row_index' = row_index + 1
                /\ IF row_index + 1 >= Rows
                   THEN /\ finished' = TRUE
                        /\ message' = Msg("lost", 0)
                        /\ endedBy' = "lost"
                        /\ UNCHANGED selected_slot
                   ELSE /\ selected_slot' = 0
                        /\ message' = Msg("continue", 0)
                        /\ UNCHANGED <<finished, endedBy>>
        /\ UNCHANGED <<board, secret, hint_color>>

\* submit_row without the test of self.finished (board[row_index] raises
\* IndexError once row_index = rows).
submit_row_unguarded ==
    /\ IF row_index \notin DOMAIN board
       THEN UNCHANGED <<gameVars, endedBy>>
       ELSE IF AnyNone(board[row_index])
       THEN /\ message' = Msg("incomplete", 0)
            /\ UNCHANGED <<board, history, row_index, selected_slot, secret,
                           finished, hint_color, endedBy>>
       ELSE submit_complete
    /\ UNCHANGED scoreVars

\* BoardWidget.submit_row, lines 141-164.
submit_row ==
    /\ IF finished
       THEN UNCHANGED <<gameVars, endedBy>>
       ELSE IF AnyNone(board[row_index])
       THEN /\ message' = Msg("incomplete", 0)
            /\ UNCHANGED <<board, history, row_index, selected_slot, secret,
                           finished, hint_color, endedBy>>
       ELSE submit_complete
    /\ UNCHANGED scoreVars

\* reveal_hint that announces position idx + 1 and shows the colour of the
\* next slot.
reveal_hint_wrong_slot(idx) ==
    /\ IF finished
       THEN UNCHANGED gameVars
       ELSE /\ message' = Msg("hint", idx + 1)
            /\ hint_color' = secret[(idx + 1) % Slots]
            /\ UNCHANGED <<board, history, row_index, selected_slot, secret,
                           finished>>
    /\ UNCHANGED <<endedBy, scoreVars>>

\* BoardWidget.reveal_hint, lines 166-173; idx = random.randrange(slots).
reveal_hint(idx) ==
    /\ IF finished
       THEN UNCHANGED gameVars
       ELSE /\ message' = Msg("hint", idx + 1)
            /\ hint_color' = secret[idx]
            /\ UNCHANGED <<board, history, row_index, selected_slot, secret,
                           finished>>
    /\ UNCHANGED <<endedBy, scoreVars>>

MaxOf(a, b) == IF a >= b THEN a ELSE b
MinOf(a, b) == IF a <= b THEN a ELSE b

\* MainWindow.keyPressEvent, lines 452-454: Key_Left.
key_left ==
    /\ selected_slot' = MaxOf(0, selected_slot - 1)
    /\ UNCHANGED <<board, history, row_index, secret, finished, message,
                   hint_color>>
    /\ UNCHANGED <<endedBy, scoreVars>>

\* MainWindow.keyPressEvent, lines 455-457: Key_Right.
key_right ==
    /\ selected_slot' = MinOf(Slots - 1, selected_slot + 1)
    /\ UNCHANGED <<board, history, row_index, secret, finished, message,
                   hint_color>>
    /\ UNCHANGED <<endedBy, scoreVars>>

\* MainWindow.update_history_display, line 411: the indices idx for which
\* history[idx] is read.
HistoryDisplayIndices == 0..row_index

\* MainWindow.ui_tick, lines 432-436, every 150 ms: update_status and
\* update_history_display read the board widget and rebuild labels; an
\* IndexError raised at line 412 ends the callback. No game state is written.
ui_tick == UNCHANGED vars

Next ==
    \/ reset
    \/ give_up
    \/ \E color \in colors : place_color(color)
    \/ remove_color
    \/ \E slot \in 0..(Slots - 1) : remove_color_slot(slot)
    \/ submit_row
    \/ \E idx \in 0..(Slots - 1) : reveal_hint(idx)
    \/ key_left
    \/ key_right
    \/ ui_tick

Spec == Init /\ [][Next]_vars

\* One game played through: the player places colours (palette buttons and
\* keys 1-6, lines 355 and 440-444), submits (line 329, Enter) and may give
\* up; no new game, no erasing, no move of the selection.
PlayNext ==
    \/ \E color \in colors : place_color(color)
    \/ submit_row
    \/ give_up

\* The player keeps filling the active row and keeps submitting.
PlayFairness ==
    /\ WF_vars(\E color \in colors : place_color(color))
    /\ WF_vars(submit_row)

PlaySpec == Init /\ [][PlayNext]_vars /\ PlayFairness

\* What the window shows of the game's resolution: the board accepts input
\* while finished is false; once finished, the message names the outcome
\* (lines 121, 153, 159, drawn at line 275).
Outcome ==
    IF ~finished THEN "InProgress"
    ELSE IF message.kind = "won" THEN "Won"
    ELSE IF message.kind = "lost" THEN "Lost"
    ELSE IF message.kind = "abandon" THEN "GivenUp"
    ELSE "Unknown"

TypeOK ==
    /\ row_index \in 0..Rows
    /\ selected_slot \in 0..(Slots - 1)
    /\ secret \in random_code(colors, Slots)
    /\ finished \in BOOLEAN
    /\ hint_color \in colors \cup {None}
    /\ \A r \in 0..(Rows - 1) : \A s \in 0..(Slots - 1) :
          board[r][s] \in colors \cup {None}
    /\ Outcome # "Unknown"


(* ------------------------ claims on score_guess ----------------------- *)
Returned == sc_result # NoResult
ArgLen == Cardinality(DOMAIN sc_secret)
CountOf(list, c) == Cardinality({i \in DOMAIN list : list[i] = c})

RECURSIVE SumMin(_, _, _)
SumMin(cs, s_, g_) ==
    IF cs = {} THEN 0
    ELSE LET c == CHOOSE x \in cs : TRUE
         IN  MinOf(CountOf(s_, c), CountOf(g_, c)) + SumMin(cs \ {c}, s_, g_)

ExactRef(s_, g_) == Cardinality({i \in DOMAIN s_ : g_[i] = s_[i]})
PartialRef(s_, g_) == SumMin(ScoreColors, s_, g_) - ExactRef(s_, g_)

\* C1: for a secret and a complete guess of the same length, score_guess
\* returns exact = the number of positions where guess and secret agree and
\* partial = (sum over the colours of the smaller of the colour's counts in
\* secret and guess) - exact, whichever duplicate the list search consumed.
C1_ScoreIsMultisetScore ==
    Returned => sc_result = <<ExactRef(sc_secret, sc_guess),
                              PartialRef(sc_secret, sc_guess)>>

\* A returned score with a partial match on a colour the secret holds more
\* than once, so that the search had a choice of element to consume.
C1_Witness ==
    /\ Returned
    /\ sc_result[2] > 0
    /\ \E c \in ScoreColors :
          /\ CountOf(sc_secret, c) >= 2
          /\ \E i \in DOMAIN sc_guess : sc_guess[i] = c /\ sc_secret[i] # c

\* C2: score_guess returns exact >= 0, partial >= 0 and
\* exact + partial <= L for arguments of equal length L.
C2_ScoreBounded ==
    Returned => /\ sc_result[1] >= 0
                /\ sc_result[2] >= 0
                /\ sc_result[1] + sc_result[2] <= ArgLen

\* A returned score that uses the whole length, part exact and part partial.
C2_Witness ==
    /\ Returned
    /\ sc_result[1] > 0
    /\ sc_result[2] > 0
    /\ sc_result[1] + sc_result[2] = ArgLen

\* C3: score_guess(S, S) = (L, 0), repeated colours included.
C3_SelfScore ==
    (Returned /\ sc_guess = sc_secret) => sc_result = <<ArgLen, 0>>

\* The secret scored against itself, with a colour repeated in it.
C3_Witness ==
    /\ Returned
    /\ sc_guess = sc_secret
    /\ \E c \in ScoreColors : CountOf(sc_secret, c) >= 2

(* -------------------------- claims on the game ------------------------ *)
RowSet == 0..(Rows - 1)
SlotSet == 0..(Slots - 1)
EntrySet(r) == history[r] # NoEntry

\* The calls the claims speak of, with their arguments drawn.
PlaceColorCall == \E color \in colors : place_color(color)
RemoveColorCall == remove_color \/ \E slot \in SlotSet : remove_color_slot(slot)

\* The active row exists and has an empty slot.
ActiveRowIncomplete ==
    /\ row_index \in RowSet
    /\ \E s \in SlotSet : board[row_index][s] = None

\* C4: after R complete submissions none of which scored exact = L
\* (row_index has reached rows) the game is finished, the R-th submission
\* having set the outcome Lost; from then on no place_color and no
\* submit_row changes the board, the history or the turn.
C4_LostAfterAllRows ==
    /\ [](row_index = Rows =>
             /\ finished
             /\ \A r \in RowSet : EntrySet(r) /\ history[r].black # Slots)
    /\ [][/\ (row_index # Rows /\ row_index' = Rows) =>
                 (finished' /\ Outcome' = "Lost")
          /\ (row_index = Rows /\ (PlaceColorCall \/ submit_row)) =>
                 UNCHANGED <<board, history, row_index>>]_vars

\* All rows were submitted without a perfect score and the loss is shown.
C4_Witness ==
    /\ row_index = Rows
    /\ finished
    /\ Outcome = "Lost"
    /\ \A r \in RowSet : EntrySet(r) /\ history[r].black # Slots

\* C5: submit_row on a game in progress whose active row has an empty slot
\* leaves row_index, history, the board, the secret, finished and the outcome
\* unchanged and sets the incomplete-guess message.
C5_IncompleteSubmitRejected ==
    [][(~finished /\ ActiveRowIncomplete /\ submit_row) =>
          /\ UNCHANGED <<row_index, history, board, secret, finished>>
          /\ Outcome' = Outcome
          /\ message'.kind = "incomplete"]_vars

\* A partly filled active row was submitted and refused.
C5_Witness ==
    /\ ~finished
    /\ message.kind = "incomplete"
    /\ ActiveRowIncomplete
    /\ \E s \in SlotSet : board[row_index][s] # None
    /\ ~EntrySet(row_index)

\* C6: once the game is finished, no operation other than reset changes the
\* outcome, and give_up on a finished game changes nothing.
C6_OutcomeTerminal ==
    [][(finished /\ finished') =>
          /\ Outcome' = Outcome
          /\ (give_up => UNCHANGED gameVars)]_vars

\* C7: remove_color on a finished game leaves the board, the history and
\* the turn unchanged, whatever the slot.
C7_RemoveRefusedWhenFinished ==
    [][(finished /\ RemoveColorCall) =>
          UNCHANGED <<board, history, row_index>>]_vars

\* The state of a freshly constructed game, and what paintEvent shows of a
\* hint (lines 286-290).
HintShown == hint_color # None /\ ~finished
FreshGame ==
    /\ board = EmptyBoard
    /\ history = EmptyHistory
    /\ row_index = 0
    /\ selected_slot = 0
    /\ finished = FALSE
    /\ Outcome = "InProgress"
    /\ hint_color = None
    /\ ~HintShown

\* C8: after reset the game state equals that of a freshly constructed game
\* and no hint of the previous game is shown.
C8_ResetIsNewGame ==
    [][reset => FreshGame']_vars

\* C9 as stated: history[i] is set iff i < row_index, or i = row_index and
\* the game ended on that turn.
C9_HistoryIffEnded ==
    \A i \in RowSet :
        EntrySet(i) <=> (i < row_index \/ (i = row_index /\ finished))

\* C9 amended: history[i] is set iff i < row_index, or i = row_index and the
\* game ended on that turn by a submission (the winning one); a game given
\* up on turn i has no entry at i.
C9_HistoryIffSubmitted ==
    \A i \in RowSet :
        EntrySet(i) <=> (i < row_index \/ (i = row_index /\ endedBy = "won"))

\* Won on the second turn: entries at 0 and at the turn itself.
C9_Witness ==
    /\ endedBy = "won"
    /\ row_index = 1
    /\ EntrySet(0)
    /\ EntrySet(1)
    /\ history[1].black = Slots

\* C10: 0 <= row_index < rows while the game is not finished; the step that
\* finishes the game leaves row_index at the turn of resolution, or moves it
\* to rows when the attempts are exhausted; once finished, only reset
\* changes row_index.
C10_TurnRangeAndFrozen ==
    /\ [](~finished => row_index \in RowSet)
    /\ [](finished => (row_index \in 0..Rows /\ (row_index = Rows <=> endedBy = "lost")))
    /\ [][/\ (~finished /\ finished') =>
                 \/ row_index' = row_index
                 \/ (row_index' = Rows /\ row_index = Rows - 1
                        /\ endedBy' = "lost")
          /\ (finished /\ finished') => row_index' = row_index]_vars

\* Given up on the second turn with the row filled: the turn stays there.
C10_Witness ==
    /\ finished
    /\ endedBy = "give_up"
    /\ row_index = 1
    /\ ~ActiveRowIncomplete

\* The attempt the game was resolved on: the entry at row_index when the
\* turn was left in place, the last row when the attempts ran out.
LastEntry == IF row_index \in RowSet THEN history[row_index] ELSE history[Rows - 1]

\* C11: the outcome is exactly one of InProgress, Won, Lost, GivenUp; when it
\* is Won the last submitted guess scored exact = L and equals the secret;
\* when it is Lost every one of the R turns has a recorded guess and none of
\* them scored exact = L.
C11_OutcomeMeaning ==
    /\ Outcome \in {"InProgress", "Won", "Lost", "GivenUp"}
    /\ (Outcome = "InProgress") = ~finished
    /\ Outcome = "Won" =>
          /\ EntrySet(row_index)
          /\ LastEntry.black = Slots
          /\ LastEntry.guess = secret
    /\ Outcome = "Lost" =>
          \A r \in RowSet : EntrySet(r) /\ history[r].black # Slots

\* Won on the first turn, on a secret of more than one colour.
C11_Witness ==
    /\ Outcome = "Won"
    /\ row_index = 0
    /\ history[0].guess = secret
    /\ secret[0] # secret[1 % Slots]

RevealHintCall == \E idx \in SlotSet : reveal_hint(idx)

\* C12: reveal_hint on a game in progress discloses a position idx in
\* [0, L) and the colour secret[idx], and leaves the secret, the turn, the
\* history, the board, the selected slot and finished unchanged; on a
\* finished game it discloses nothing and changes nothing.
C12_HintDisclosesOnly ==
    [][RevealHintCall =>
          /\ UNCHANGED <<secret, row_index, history, board, selected_slot,
                         finished>>
          /\ ~finished => \E idx \in SlotSet :
                              /\ message' = Msg("hint", idx + 1)
                              /\ hint_color' = secret[idx]
          /\ finished => UNCHANGED <<message, hint_color>>]_vars

\* A hint is on display for a secret of more than one colour, with a peg
\* already placed on the board.
C12_Witness ==
    /\ ~finished
    /\ message.kind = "hint"
    /\ message.n \in 1..Slots
    /\ hint_color = secret[message.n - 1]
    /\ \E s \in SlotSet : secret[s] # hint_color
    /\ \E s \in SlotSet : board[row_index][s] # None

\* What paintEvent shows of the secret (lines 276-281).
SecretShown == finished

\* C13: give_up on a game in progress sets finished with the outcome
\* GivenUp and makes the secret visible, leaving the secret, the history,
\* the board and the turn as they were.
C13_GiveUpEndsGame ==
    [][(~finished /\ give_up) =>
          /\ finished'
          /\ Outcome' = "GivenUp"
          /\ SecretShown'
          /\ UNCHANGED <<secret, history, board, row_index>>]_vars

\* Given up before any submission.
C13_Witness ==
    /\ finished
    /\ Outcome = "GivenUp"
    /\ endedBy = "give_up"
    /\ SecretShown
    /\ row_index = 0
    /\ history = EmptyHistory

\* C14: a history entry, once set, keeps its guess and its score under
\* every operation but reset, edits of the board row it was copied from
\* included.
C14_EntryNeverOverwritten ==
    [][~reset => \A i \in RowSet : EntrySet(i) => history'[i] = history[i]]_vars

\* The winning row of the board was edited after the submission and the
\* entry still holds the guess that was scored.
C14_Witness ==
    /\ endedBy = "won"
    /\ EntrySet(row_index)
    /\ history[row_index].guess = secret
    /\ board[row_index] # history[row_index].guess

\* C15: no operation other than reset changes the secret, neither its
\* length nor any of its elements.
C15_SecretImmutable ==
    /\ [](secret \in random_code(colors, Slots))
    /\ [][~reset => secret' = secret]_vars

\* A submission was scored with an exact match, which the scoring consumed
\* in its copy, and a hint was read from the secret: it is still a full code.
C15_Witness ==
    /\ row_index = 1
    /\ EntrySet(0)
    /\ history[0].black > 0
    /\ hint_color # None
    /\ secret \in random_code(colors, Slots)

\* C16: the exact count is the same with the arguments exchanged:
\* score_guess(S, G).exact = score_guess(G, S).exact.
C16_ExactSymmetric ==
    Returned => sc_result[1] = score_guess(sc_guess, sc_secret)[1]

\* Two different sequences with an exact match, a repeated colour and a
\* partial match.
C16_Witness ==
    /\ Returned
    /\ sc_secret # sc_guess
    /\ sc_result[1] > 0
    /\ sc_result[2] > 0
    /\ \E c \in ScoreColors : CountOf(sc_secret, c) >= 2 /\ CountOf(sc_guess, c) = 1

\* C17: submit_row with a complete guess on a game in progress at turn t
\* records history[t] = (the guess, its score); then, if exact = L, the game
\* is Won with the turn left at t, the last row included; else if t + 1 = R
\* the game is Lost; else the turn becomes t + 1, its row is entirely empty
\* and the game is still in progress.
C17_SubmitProgression ==
    [][(~finished /\ ~ActiveRowIncomplete /\ submit_row) =>
          LET t == row_index
              guess == board[t]
              exact == ExactRef(secret, guess)
              partial == PartialRef(secret, guess)
          IN  /\ history'[t] = [black |-> exact, white |-> partial,
                                guess |-> guess]
              /\ \A r \in RowSet \ {t} : history'[r] = history[r]
              /\ IF exact = Slots
                 THEN finished' /\ Outcome' = "Won" /\ row_index' = t
                 ELSE IF t + 1 = Rows
                 THEN finished' /\ Outcome' = "Lost"
                 ELSE /\ row_index' = t + 1
                      /\ ~finished'
                      /\ \A s_ \in SlotSet : board'[t + 1][s_] = None]_vars

\* Won with the last allowed attempt.
C17_Witness ==
    /\ Outcome = "Won"
    /\ endedBy = "won"
    /\ row_index = Rows - 1
    /\ history[Rows - 1].black = Slots
    /\ \A r \in RowSet : r < Rows - 1 => (EntrySet(r) /\ history[r].black # Slots)

\* The submissions scored in the game in course: one entry each.
NumEntries == Cardinality({r \in RowSet : EntrySet(r)})

\* C18: within one game every scored submission adds one entry to the
\* history, of which there are at most R, and a player who keeps filling the
\* active row and submitting reaches finished.
C18_GameBounded ==
    /\ [][(~finished /\ ~ActiveRowIncomplete /\ submit_row) =>
             /\ NumEntries' = NumEntries + 1
             /\ NumEntries' <= Rows]_vars
    /\ [][history' # history => (~finished /\ ~ActiveRowIncomplete /\ submit_row)]_vars
    /\ <>finished

\* The game ended by the R-th scored submission.
C18_Witness ==
    /\ finished
    /\ endedBy = "lost"
    /\ NumEntries = Rows
    /\ message.kind = "lost"

\* C19: every list index a game operation or the periodic refresh uses is in
\* range: history[idx] for idx in 0..row_index in update_history_display,
\* board[row_index][slot] in remove_color (which has no test of finished)
\* and in place_color (when the game is not finished).
C19_IndicesInRange ==
    /\ \A idx \in HistoryDisplayIndices : idx \in DOMAIN history
    /\ row_index \in DOMAIN board
    /\ selected_slot \in SlotSet
    /\ (selected_slot - 1) % Slots \in SlotSet

\* C20: for every row with a history entry, the board row that is painted
\* equals the guess recorded in the entry.
C20_BoardShowsScoredGuess ==
    \A r \in RowSet : EntrySet(r) => board[r] = history[r].guess

=============================================================================
